---- MODULE Spec2Model ----
(***************************************************************************)
(* TCP MODBUS framing (src/src/protocols/tcp_modbus.rs).                   *)
(*                                                                         *)
(* The four operations of `impl ModbusProtocol for TcpModbus` are pure     *)
(* functions of a byte buffer.  They are modelled as operators, computed   *)
(* the way the code computes them, and driven by the accumulation loop     *)
(* the operations are designed for: a transport appends bytes to the       *)
(* buffer and the caller re-invokes an operation on the buffer.            *)
(*                                                                         *)
(* usize is taken to be at least 32 bits wide, so `v as usize + 7` with    *)
(* v <= 65535 cannot overflow and is modelled on the integers.             *)
(***************************************************************************)
EXTENDS Integers, Sequences, FiniteSets

\* ------------------------------------------------------------------ bounds

\* Longest buffer the transport accumulates in Spec.
MaxLen == 9

\* Largest value of the wire length field that the peer sends in SpecLive.
MaxLenField == 2

\* Byte values the transport delivers.
ByteVals == {0, 1, 2}

\* ------------------------------------------------------- program constants

MBAP_LENGTH == 7

EXCLUDED_LENGTH == 6

NotEnoughData == "NotEnoughData"

\* ------------------------------------------------ Option / Result / panic

None == [some |-> FALSE, v |-> 0]

Some(x) == [some |-> TRUE, v |-> x]

Ok(x) == [tag |-> "Ok", val |-> x]

Err(e) == [tag |-> "Err", val |-> e]

\* An out-of-range slice index aborts the call.
Panic == [tag |-> "Panic", val |-> "slice index out of range"]

\* No operation has been invoked on the current buffer yet.
NoResult == [tag |-> "None", val |-> "none"]

\* <[u8]>::get(i): bounds-checked read of the byte at 0-based index i.
get(d, i) == IF i < Len(d) THEN Some(d[i + 1]) ELSE None

\* u16::from_be_bytes([hi, lo])
from_be_bytes(hi, lo) == (hi * 256 + lo) % 65536

\* &data[k..]: panics when k > data.len(); otherwise the view starting at
\* offset k and running to the end of the buffer.
slice_from(d, k) ==
    IF k > Len(d)
    THEN Panic
    ELSE Ok([off |-> k, bytes |-> SubSeq(d, k + 1, Len(d))])

\* ------------------------------------------------------- field accessors

\* Reads two bytes with `?`: the first missing byte makes the whole read None.
be_u16_at(d, i) ==
    LET hi == get(d, i)
        lo == get(d, i + 1)
    IN  IF hi = None THEN None
        ELSE IF lo = None THEN None
        ELSE Some(from_be_bytes(hi.v, lo.v))

protocol_id(d) == be_u16_at(d, 2)

transaction_id(d) == be_u16_at(d, 0)

length_at5(d) == be_u16_at(d, 5)

length(d) == be_u16_at(d, 4)

unit_id_at5(d) == get(d, 5)

unit_id(d) == get(d, 6)

\* ------------------------------------------ impl ModbusProtocol for TcpModbus

adu_length(d) ==
    LET v == length(d)
    IN  IF v = None
        THEN Err(NotEnoughData)
        ELSE Ok(v.v + MBAP_LENGTH)

adu_header(d) ==
    LET t == transaction_id(d)
        p == protocol_id(d)
        l == length(d)
        u == unit_id(d)
    IN  IF t = None THEN Err(NotEnoughData)
        ELSE IF p = None THEN Err(NotEnoughData)
        ELSE IF l = None THEN Err(NotEnoughData)
        ELSE IF u = None THEN Err(NotEnoughData)
        ELSE Ok([transaction_id |-> t.v,
                 protocol_id    |-> p.v,
                 length         |-> l.v,
                 unit_id        |-> u.v])

adu_check_ge(d) ==
    IF adu_length(d).tag = "Err"
    THEN adu_length(d)
    ELSE IF Len(d) >= adu_length(d).val
         THEN Ok("unit")
         ELSE Err(NotEnoughData)

adu_check_unchecked(d) ==
    IF adu_length(d).tag = "Err"
    THEN adu_length(d)
    ELSE Ok("unit")

adu_check_flipped(d) ==
    IF adu_length(d).tag = "Err"
    THEN adu_length(d)
    ELSE IF Len(d) < adu_length(d).val
         THEN Ok("unit")
         ELSE Err(NotEnoughData)

adu_check_exact(d) ==
    IF adu_length(d).tag = "Err"
    THEN adu_length(d)
    ELSE IF Len(d) = adu_length(d).val + 1
         THEN Ok("unit")
         ELSE Err(NotEnoughData)

adu_check(d) ==
    LET len == adu_length(d)
    IN  IF len.tag = "Err"
        THEN len
        ELSE IF Len(d) > len.val
             THEN Ok("unit")
             ELSE Err(NotEnoughData)

pdu_body_lossy(d) ==
    IF adu_check(d).tag = "Err"
    THEN IF Len(d) >= MBAP_LENGTH THEN slice_from(d, MBAP_LENGTH) ELSE adu_check(d)
    ELSE slice_from(d, MBAP_LENGTH)

pdu_body(d) ==
    LET checked == adu_check(d)
    IN  IF checked.tag = "Err"
        THEN checked
        ELSE slice_from(d, MBAP_LENGTH)

\* ------------------------------------------------------------ state machine

VARIABLES
    data,   \* the bytes received so far on the connection
    op,     \* the operation last invoked on the current buffer
    res     \* what that invocation returned

vars == <<data, op, res>>

Init ==
    /\ data = <<>>
    /\ op = "none"
    /\ res = NoResult

\* The transport appends one byte; results obtained on the shorter buffer
\* are no longer held by the caller.
Arrive(b) ==
    /\ data' = Append(data, b)
    /\ op' = "none"
    /\ res' = NoResult

Recv ==
    /\ Len(data) < MaxLen
    /\ \E b \in ByteVals : Arrive(b)

CallAduLength ==
    /\ op' = "adu_length"
    /\ res' = adu_length(data)
    /\ UNCHANGED data

CallAduHeader ==
    /\ op' = "adu_header"
    /\ res' = adu_header(data)
    /\ UNCHANGED data

CallAduCheck ==
    /\ op' = "adu_check"
    /\ res' = adu_check(data)
    /\ UNCHANGED data

CallPduBody ==
    /\ op' = "pdu_body"
    /\ res' = pdu_body(data)
    /\ UNCHANGED data

Next ==
    \/ Recv
    \/ CallAduLength
    \/ CallAduHeader
    \/ CallAduCheck
    \/ CallPduBody

Spec == Init /\ [][Next]_vars

\* ------------------------------------------- the peer of the liveness check

\* In SpecLive the peer announces a wire length of at most MaxLenField, and
\* the transport delivers one byte more than MBAP_LENGTH + MaxLenField.
LiveCap == MaxLenField + MBAP_LENGTH + 1

\* Byte values the peer sends outside the length field in SpecLive.
LiveVals == {0, 1}

LiveBytes(i) ==
    IF i = 4 THEN {0}
    ELSE IF i = 5 THEN 0..MaxLenField
    ELSE LiveVals

RecvLive ==
    /\ Len(data) < LiveCap
    /\ \E b \in LiveBytes(Len(data)) : Arrive(b)

NextLive ==
    \/ RecvLive
    \/ CallAduLength
    \/ CallAduHeader
    \/ CallAduCheck
    \/ CallPduBody

\* Bytes keep arriving, and the caller keeps re-invoking each operation.
SpecLive ==
    /\ Init
    /\ [][NextLive]_vars
    /\ WF_vars(RecvLive)
    /\ WF_vars(CallAduLength)
    /\ WF_vars(CallAduHeader)
    /\ WF_vars(CallAduCheck)
    /\ WF_vars(CallPduBody)

\* ------------------------------------------------------------------ claims

\* The wire fields of the buffer, read straight off the layout table
\* (big-endian, 1-based sequence positions).
WireTransaction == data[1] * 256 + data[2]

WireProtocol == data[3] * 256 + data[4]

WireLength == data[5] * 256 + data[6]

WireUnit == data[7]

Ops == {"adu_length", "adu_header", "adu_check", "pdu_body"}

\* C1: on every buffer of at least 6 bytes adu_length returns Ok(L + 6),
\* L being the big-endian value of bytes 4..5.
C1_AduLengthIsFieldPlusSix ==
    (op = "adu_length" /\ Len(data) >= 6)
        => (res.tag = "Ok" /\ res.val = WireLength + EXCLUDED_LENGTH)

\* C2: adu_check succeeds exactly when the buffer holds at least 6 bytes and
\* at least L + 6 bytes, the exact-length buffer included; otherwise it fails
\* with NotEnoughData.
C2_CheckSucceedsOnCompleteAdu ==
    op = "adu_check"
        => IF Len(data) >= 6 /\ Len(data) >= WireLength + EXCLUDED_LENGTH
           THEN res.tag = "Ok"
           ELSE res.tag = "Err" /\ res.val = NotEnoughData

\* C3: a successful pdu_body returns the view at offset 7 holding exactly
\* adu_length(buffer) - 7 bytes, so no byte beyond the declared ADU.
C3_BodyIsExactlyFirstPdu ==
    (op = "pdu_body" /\ res.tag = "Ok")
        => /\ res.val.off = MBAP_LENGTH
           /\ Len(res.val.bytes) = adu_length(data).val - MBAP_LENGTH

\* C4: no operation panics; each returns a value or NotEnoughData, and the
\* slice at offset 7 is taken only from a buffer of at least 7 bytes, because
\* a successful adu_check means buffer length >= adu_length >= 7.
C4_NoPanic ==
    /\ res.tag \in {"None", "Ok", "Err"}
    /\ res.tag = "Err" => res.val = NotEnoughData
    /\ (op = "pdu_body" /\ res.tag = "Ok") => Len(data) >= MBAP_LENGTH
    /\ (op = "adu_check" /\ res.tag = "Ok")
          => /\ Len(data) >= adu_length(data).val
             /\ adu_length(data).val >= MBAP_LENGTH

C4_Witness ==
    /\ op = "pdu_body"
    /\ res.tag = "Ok"
    /\ Len(data) = MBAP_LENGTH + 1

\* C5: adu_header succeeds iff the buffer has at least 7 bytes; on success the
\* four fields are the big-endian bytes 0..1, 2..3, 4..5 and byte 6; on a
\* shorter buffer it fails with NotEnoughData.
C5_HeaderIffSevenBytes ==
    op = "adu_header"
        => IF Len(data) >= 7
           THEN /\ res.tag = "Ok"
                /\ res.val = [transaction_id |-> WireTransaction,
                              protocol_id    |-> WireProtocol,
                              length         |-> WireLength,
                              unit_id        |-> WireUnit]
           ELSE res.tag = "Err" /\ res.val = NotEnoughData

\* A 7-byte buffer (header only, the announced PDU absent) whose four fields
\* are pairwise distinguishable.
C5_Witness ==
    /\ op = "adu_header"
    /\ Len(data) = 7
    /\ res.tag = "Ok"
    /\ res.val.length > 0
    /\ res.val.transaction_id # res.val.protocol_id
    /\ res.val.unit_id # data[6]

\* C6: adu_length fails with NotEnoughData on every buffer shorter than 6
\* bytes and succeeds on every buffer of 6 or more bytes.
C6_LengthNeedsSixBytes ==
    op = "adu_length"
        => IF Len(data) >= 6
           THEN res.tag = "Ok"
           ELSE res.tag = "Err" /\ res.val = NotEnoughData

\* Exactly 6 bytes: no unit id, no PDU byte, and the length is known.
C6_Witness ==
    /\ op = "adu_length"
    /\ Len(data) = 6
    /\ res.tag = "Ok"

\* C7: pdu_body returns a slice exactly when adu_check succeeds and otherwise
\* returns adu_check's error unchanged; adu_check returns adu_length's error
\* unchanged.
C7_ErrorsPropagate ==
    /\ op = "pdu_body"
          => IF adu_check(data).tag = "Ok"
             THEN res.tag = "Ok" /\ res.val.off = MBAP_LENGTH
             ELSE res = adu_check(data)
    /\ (op = "adu_check" /\ adu_length(data).tag = "Err")
          => res = adu_length(data)

\* The header is present but the ADU is not: pdu_body hands on the error.
C7_Witness ==
    /\ op = "pdu_body"
    /\ Len(data) >= MBAP_LENGTH
    /\ res.tag = "Err"

\* C8: only NotEnoughData is ever returned as an error, and every operation
\* that failed succeeds once enough further bytes have arrived.
C8_NotEnoughDataIsTransient ==
    /\ [](res.tag = "Err" => res.val = NotEnoughData)
    /\ \A o \in Ops :
          (op = o /\ res.tag = "Err") ~> (op = o /\ res.tag = "Ok")

\* pdu_body succeeds on a buffer on whose 7-byte prefix it had to fail.
C8_Witness ==
    /\ op = "pdu_body"
    /\ res.tag = "Ok"
    /\ pdu_body(SubSeq(data, 1, MBAP_LENGTH)).tag = "Err"
    /\ WireLength = MaxLenField

C10_StableUnderGrowth ==
    [][data' # data =>
          LET l == adu_length(data)
              h == adu_header(data)
          IN  /\ l.tag = "Ok" => adu_length(data') = l
              /\ h.tag = "Ok" => adu_header(data') = h
              /\ adu_check(data).tag = "Ok" => adu_check(data').tag = "Ok"]_vars

\* adu_check succeeds on a buffer that grew past the length at which it
\* first succeeded.
C10_Witness ==
    /\ op = "adu_check"
    /\ res.tag = "Ok"
    /\ Len(data) > adu_length(data).val + 1

====
